---- MODULE Spec2Model ----
(***************************************************************************)
(* Rectangle packer of StepSlicerEngine (sse::Packer).                     *)
(*                                                                         *)
(* The binary tree of Nodes, Node::add_object, Node::fits, Node::full and  *)
(* Node::leaf are translated from include/sse/Packer.hpp.  Packer.cpp is   *)
(* listed in libsse/CMakeLists.txt but is not part of the sources at hand: *)
(* pack, arrange, insert_search, grow_up, grow_right and translate are     *)
(* modelled from sections 4 and 7 of the specification.                    *)
(*                                                                         *)
(* Extents and coordinates are doubles in the code.  The finite ones are    *)
(* small integers here (every operation on them is +, -, max and the       *)
(* comparisons, which are exact on these); +infinity, -infinity and NaN    *)
(* are the values Infinity, NegInfinity and NaN, with the IEEE 754 rules   *)
(* for +, -, < , <= and == .                                               *)
(***************************************************************************)
EXTENDS Integers, Sequences, FiniteSets

\* ---- bounds of the model ------------------------------------------------
MaxItems == 3
MaxExtent == 2
MaxOffset == 1
MaxTreeExtent == 3
MaxNodes == 7

VARIABLES objects, root, pc, idx, error, result, offset, placed

vars == <<objects, root, pc, idx, error, result, offset, placed>>

\* ---- pointers -------------------------------------------------------------
\* A unique_ptr / raw pointer is the empty sequence (nullptr) or a
\* one-element sequence holding the pointee.
Null == <<>>

\* ---- double -----------------------------------------------------------
\* The non-finite doubles.  Infinity lies above, NegInfinity below every
\* finite value of the model, so the order of the integers is the order of
\* the doubles wherever no NaN is compared.
Infinity == 1000

NegInfinity == 0 - Infinity

NaN == 2000

IsFinite(a) == a # NaN /\ a # Infinity /\ a # NegInfinity

\* a < b, a <= b, a == b: false whenever an operand is NaN.
Lt(a, b) == a # NaN /\ b # NaN /\ a < b

Le(a, b) == a # NaN /\ b # NaN /\ a <= b

Eq(a, b) == a # NaN /\ b # NaN /\ a = b

\* a + b
Add(a, b) ==
  IF a = NaN \/ b = NaN THEN NaN
  ELSE IF IsFinite(a) /\ IsFinite(b) THEN a + b
  ELSE IF IsFinite(a) THEN b
  ELSE IF IsFinite(b) THEN a
  ELSE IF a = b THEN a ELSE NaN

\* -a
Neg(a) ==
  IF a = NaN THEN NaN
  ELSE IF a = Infinity THEN NegInfinity
  ELSE IF a = NegInfinity THEN Infinity
  ELSE 0 - a

\* a - b
Sub(a, b) == Add(a, Neg(b))

\* std::max(a, b): (a < b) ? b : a
Max(a, b) == IF Lt(a, b) THEN b ELSE a

\* std::abs(a)
Abs(a) == IF Lt(a, 0) THEN Neg(a) ELSE a

\* ---- PackableItem ---------------------------------------------------------
Object(i, w, l) == [id |-> i, width |-> w, length |-> l]

\* ---- struct Node ----------------------------------------------------------
Node(x, y, w, l, up, right) ==
  [x |-> x, y |-> y, width |-> w, length |-> l,
   up |-> up, right |-> right, object |-> Null]

\* Variants of add_object with a plausible slip each: the item not recorded,
\* the right child not created, the up child keeping the full length, the
\* right child shrinking by the item's length.
add_object_NoObject(node, o) ==
  [node EXCEPT
     !.up     = <<Node(node.x, node.y + o.length, node.width,
                       node.length - o.length, Null, Null)>>,
     !.right  = <<Node(node.x + o.length, node.y,
                       node.width - o.width, node.length, Null, Null)>>]

add_object_NoRight(node, o) ==
  [node EXCEPT
     !.object = <<o>>,
     !.up     = <<Node(node.x, node.y + o.length, node.width,
                       node.length - o.length, Null, Null)>>]

add_object_UpKeepsLength(node, o) ==
  [node EXCEPT
     !.object = <<o>>,
     !.up     = <<Node(node.x, node.y + o.length, node.width,
                       node.length, Null, Null)>>,
     !.right  = <<Node(node.x + o.length, node.y,
                       node.width - o.width, node.length, Null, Null)>>]

add_object_RightByLength(node, o) ==
  [node EXCEPT
     !.object = <<o>>,
     !.up     = <<Node(node.x, node.y + o.length, node.width,
                       node.length - o.length, Null, Null)>>,
     !.right  = <<Node(node.x + o.length, node.y,
                       node.width - o.length, node.length, Null, Null)>>]

add_object(node, o) ==
  [node EXCEPT
     !.object = <<o>>,
     !.up     = <<Node(node.x, Add(node.y, o.length), node.width,
                       Sub(node.length, o.length), Null, Null)>>,
     !.right  = <<Node(Add(node.x, o.length), node.y,
                       Sub(node.width, o.width), node.length, Null, Null)>>]

\* Variants of fits: the width test dropped, both tests strict.
fits_LengthOnly(node, o) == o.length <= node.length

fits_Strict(node, o) == (o.length < node.length) /\ (o.width < node.width)

fits(node, o) == Le(o.length, node.length) /\ Le(o.width, node.width)

full(node) == node.object # Null

leaf(node) == node.up = Null

\* ---- tree navigation ------------------------------------------------------
\* A Node* into the tree is the path from the root: a sequence over
\* {"up", "right"}.
Child(node, dir) == IF dir = "up" THEN node.up[1] ELSE node.right[1]

RECURSIVE NodeAt(_, _)
NodeAt(node, path) ==
  IF path = <<>> THEN node ELSE NodeAt(Child(node, Head(path)), Tail(path))

RECURSIVE ReplaceAt(_, _, _)
ReplaceAt(node, path, new) ==
  IF path = <<>> THEN new
  ELSE IF Head(path) = "up"
       THEN [node EXCEPT !.up = <<ReplaceAt(node.up[1], Tail(path), new)>>]
       ELSE [node EXCEPT !.right = <<ReplaceAt(node.right[1], Tail(path), new)>>]

\* Every node of the tree below (and including) node; either child pointer
\* is followed on its own.
RECURSIVE Nodes(_)
Nodes(node) ==
  {node} \cup (IF node.up = Null THEN {} ELSE Nodes(node.up[1]))
         \cup (IF node.right = Null THEN {} ELSE Nodes(node.right[1]))

RECURSIVE Size(_)
Size(node) ==
  1 + (IF node.up = Null THEN 0 ELSE Size(node.up[1]))
    + (IF node.right = Null THEN 0 ELSE Size(node.right[1]))

TreeNodes == IF root = Null THEN {} ELSE Nodes(root[1])

\* ---- Packer::insert_search (specification 4.1) ----------------------------
\* Result: Null, or <<path>> of the Region found.
RECURSIVE insert_search(_, _)
insert_search(node, o) ==
  IF leaf(node)
  THEN IF ~full(node) /\ fits(node, o) THEN << <<>> >> ELSE Null
  ELSE LET r == insert_search(node.right[1], o) IN
       IF r # Null THEN << <<"right">> \o r[1] >>
       ELSE LET u == insert_search(node.up[1], o) IN
            IF u # Null THEN << <<"up">> \o u[1] >> ELSE Null

\* ---- Packer::grow_up / grow_right (specification 4.3) ---------------------
grow_up(r, width, length) ==
  Node(0, 0, Max(r.width, width), Add(r.length, length),
       <<Node(0, r.length, width, length, Null, Null)>>, <<r>>)

grow_right(r, width, length) ==
  Node(0, 0, Add(r.width, width), Max(r.length, length),
       <<r>>, <<Node(r.width, 0, width, length, Null, Null)>>)

\* Skew of the bin each move would produce, and the moves pack() may choose.
SkewUp(r, o) == Abs(Sub(Max(r.width, o.width), Add(r.length, o.length)))

SkewRight(r, o) == Abs(Sub(Add(r.width, o.width), Max(r.length, o.length)))

\* With a NaN skew no comparison holds and section 4.3 names no move.
\* Variant of MayGrowUp: the skew is not compared.
MayGrowUp_Always(r, o) == TRUE

MayGrowUp(r, o) ==
  \/ Lt(SkewUp(r, o), SkewRight(r, o))
  \/ Eq(SkewUp(r, o), SkewRight(r, o)) /\ Le(r.length, r.width)

MayGrowRight(r, o) ==
  \/ Lt(SkewRight(r, o), SkewUp(r, o))
  \/ Eq(SkewRight(r, o), SkewUp(r, o)) /\ Le(r.width, r.length)

\* ---- Packer::translate (specification 4.5) --------------------------------
\* The place(x, y) calls made on the subtree of node, in call order.
RECURSIVE translate(_, _, _)
translate(node, offset_x, offset_y) ==
  (IF full(node)
   THEN << [id |-> node.object[1].id,
            x |-> Add(node.x, offset_x), y |-> Add(node.y, offset_y)] >>
   ELSE <<>>)
  \o (IF node.up = Null THEN <<>> ELSE translate(node.up[1], offset_x, offset_y))
  \o (IF node.right = Null THEN <<>>
      ELSE translate(node.right[1], offset_x, offset_y))

\* ---- input validation -----------------------------------------------------
\* pack() rejects an item whose width or length is not positive
\* (specification 7); a NaN extent is not greater than 0 and is rejected
\* with them.  It has no check for infinite extents: Packer.hpp lists that
\* bounds check among its open bugs, and documents no failure of pack() but
\* the growth failure.
Valid(o) == Lt(0, o.width) /\ Lt(0, o.length)

\* ---- inputs ---------------------------------------------------------------
Extents == 0 .. MaxExtent

TreeExtents == 1 .. MaxTreeExtent

Offsets == 0 .. MaxOffset

\* The extents of SpecNonFinite: the finite ones, +infinity and NaN.
DoubleExtents == Extents \cup {Infinity, NaN}

RECURSIVE ObjectLists(_)
ObjectLists(n) ==
  IF n = 0 THEN { <<>> }
  ELSE LET shorter == ObjectLists(n - 1) IN
       shorter \cup
       { Append(s, Object(n, w, l)) :
           s \in { t \in shorter : Len(t) = n - 1 }, w \in Extents, l \in Extents }

\* ==== Spec: Packer(objects); pack(); arrange(offset_x, offset_y) ==========
Init ==
  /\ objects \in ObjectLists(MaxItems)
  /\ root = Null
  /\ pc = "pack"
  /\ idx = 1
  /\ error = "none"
  /\ result = Null
  /\ offset = Null
  /\ placed = <<>>

Packing == pc = "pack" /\ idx <= Len(objects)

\* pack(): the item is invalid.
PackInvalid ==
  /\ Packing
  /\ ~Valid(objects[idx])
  /\ pc' = "failed"
  /\ error' = "InvalidItem"
  /\ UNCHANGED <<objects, root, idx, result, offset, placed>>

\* pack(): the tree is empty; the bin is seeded with the extents of the first
\* item, which the search then finds.
PackSeed ==
  /\ Packing
  /\ Valid(objects[idx])
  /\ root = Null
  /\ LET o == objects[idx] IN
     root' = <<Node(0, 0, o.width, o.length, Null, Null)>>
  /\ UNCHANGED <<objects, pc, idx, error, result, offset, placed>>

\* pack(): the search finds a Region; the item is placed in it.
PackFit ==
  /\ Packing
  /\ Valid(objects[idx])
  /\ root # Null
  /\ LET o == objects[idx]
         f == insert_search(root[1], o)
     IN /\ f # Null
        /\ root' = <<ReplaceAt(root[1], f[1], add_object(NodeAt(root[1], f[1]), o))>>
  /\ idx' = idx + 1
  /\ UNCHANGED <<objects, pc, error, result, offset, placed>>

\* pack(): the search failed, the bin was grown to grown; search once more.
Retry(grown, o) ==
  LET f == insert_search(grown, o) IN
  IF f = Null
  THEN /\ root' = <<grown>>
       /\ pc' = "failed"
       /\ error' = "GrowthFailure"
       /\ idx' = idx
  ELSE /\ root' = <<ReplaceAt(grown, f[1], add_object(NodeAt(grown, f[1]), o))>>
       /\ pc' = pc
       /\ error' = error
       /\ idx' = idx + 1

PackGrowUp ==
  /\ Packing
  /\ Valid(objects[idx])
  /\ root # Null
  /\ LET o == objects[idx] IN
     /\ insert_search(root[1], o) = Null
     /\ MayGrowUp(root[1], o)
     /\ Retry(grow_up(root[1], o.width, o.length), o)
  /\ UNCHANGED <<objects, result, offset, placed>>

PackGrowRight ==
  /\ Packing
  /\ Valid(objects[idx])
  /\ root # Null
  /\ LET o == objects[idx] IN
     /\ insert_search(root[1], o) = Null
     /\ MayGrowRight(root[1], o)
     /\ Retry(grow_right(root[1], o.width, o.length), o)
  /\ UNCHANGED <<objects, result, offset, placed>>

\* pack(): every item is placed; the bin is read off the root.
PackReturn ==
  /\ pc = "pack"
  /\ idx > Len(objects)
  /\ result' = IF root = Null THEN << <<0, 0>> >>
               ELSE << <<root[1].width, root[1].length>> >>
  /\ pc' = "packed"
  /\ UNCHANGED <<objects, root, idx, error, offset, placed>>

\* arrange(offset_x, offset_y)
Arrange ==
  /\ pc = "packed"
  /\ \E offset_x \in Offsets, offset_y \in Offsets :
       /\ offset' = << <<offset_x, offset_y>> >>
       /\ placed' = IF root = Null THEN <<>>
                    ELSE translate(root[1], offset_x, offset_y)
  /\ pc' = "arranged"
  /\ UNCHANGED <<objects, root, idx, error, result>>

Next ==
  \/ PackInvalid
  \/ PackSeed
  \/ PackFit
  \/ PackGrowUp
  \/ PackGrowRight
  \/ PackReturn
  \/ Arrange

Spec == Init /\ [][Next]_vars

\* ==== SpecNonFinite: the same run, over items that may have an infinite or
\* NaN extent ================================================================
RECURSIVE DoubleLists(_)
DoubleLists(n) ==
  IF n = 0 THEN { <<>> }
  ELSE LET shorter == DoubleLists(n - 1) IN
       shorter \cup
       { Append(s, Object(n, w, l)) :
           s \in { t \in shorter : Len(t) = n - 1 },
           w \in DoubleExtents, l \in DoubleExtents }

InitNonFinite ==
  /\ objects \in DoubleLists(MaxItems)
  /\ root = Null
  /\ pc = "pack"
  /\ idx = 1
  /\ error = "none"
  /\ result = Null
  /\ offset = Null
  /\ placed = <<>>

SpecNonFinite == InitNonFinite /\ [][Next]_vars

\* ==== SpecTree: the tree operations on their own ===========================
\* Any sequence of seed, growth and search-then-split operations, each with
\* its own item of positive extents; the objects placed so far are recorded
\* in objects.
InitTree ==
  /\ objects = <<>>
  /\ root = Null
  /\ pc = "tree"
  /\ idx = 1
  /\ error = "none"
  /\ result = Null
  /\ offset = Null
  /\ placed = <<>>

\* Each operation adds two Nodes to the tree.
MayExtend == pc = "tree" /\ root # Null /\ Size(root[1]) + 2 <= MaxNodes

TreeSeed ==
  /\ pc = "tree"
  /\ root = Null
  /\ \E w \in TreeExtents, l \in TreeExtents :
       root' = <<Node(0, 0, w, l, Null, Null)>>
  /\ UNCHANGED <<objects, pc, idx, error, result, offset, placed>>

TreeGrowUp ==
  /\ MayExtend
  /\ \E w \in TreeExtents, l \in TreeExtents :
       root' = <<grow_up(root[1], w, l)>>
  /\ UNCHANGED <<objects, pc, idx, error, result, offset, placed>>

TreeGrowRight ==
  /\ MayExtend
  /\ \E w \in TreeExtents, l \in TreeExtents :
       root' = <<grow_right(root[1], w, l)>>
  /\ UNCHANGED <<objects, pc, idx, error, result, offset, placed>>

TreePlace ==
  /\ MayExtend
  /\ \E w \in TreeExtents, l \in TreeExtents :
       LET o == Object(Len(objects) + 1, w, l)
           f == insert_search(root[1], o)
       IN /\ f # Null
          /\ root' = <<ReplaceAt(root[1], f[1], add_object(NodeAt(root[1], f[1]), o))>>
          /\ objects' = Append(objects, o)
  /\ UNCHANGED <<pc, idx, error, result, offset, placed>>

NextTree ==
  \/ TreeSeed
  \/ TreeGrowUp
  \/ TreeGrowRight
  \/ TreePlace

SpecTree == InitTree /\ [][NextTree]_vars

\* ==== properties ===========================================================
\* Footprint of a place(x, y) call: the rectangle of the item at (x, y).
CallRect(c) ==
  [x |-> c.x, y |-> c.y,
   width |-> objects[c.id].width, length |-> objects[c.id].length]

\* Footprint of the item held by an occupied Region, at the Region's origin.
Footprint(n) ==
  [x |-> n.x, y |-> n.y,
   width |-> n.object[1].width, length |-> n.object[1].length]

\* The interiors of rectangles a and b are disjoint.
Disjoint(a, b) ==
  \/ a.width = 0 \/ a.length = 0 \/ b.width = 0 \/ b.length = 0
  \/ a.x + a.width <= b.x
  \/ b.x + b.width <= a.x
  \/ a.y + a.length <= b.y
  \/ b.y + b.length <= a.y

\* Rectangle a lies entirely within rectangle b.
Within(a, b) ==
  /\ b.x <= a.x /\ a.x + a.width <= b.x + b.width
  /\ b.y <= a.y /\ a.y + a.length <= b.y + b.length

Area(a) == a.width * a.length

\* The Regions of the tree that hold the item with identity i.
Holders(i) == { n \in TreeNodes : full(n) /\ n.object[1].id = i }

\* C1 (No-overlap): once pack() and arrange() have run, the footprints of any
\* two distinct place() calls have disjoint interiors.
NoOverlap ==
  pc = "arranged" =>
    \A i \in 1 .. Len(placed), j \in 1 .. Len(placed) :
      i # j => Disjoint(CallRect(placed[i]), CallRect(placed[j]))

NoOverlapWitness ==
  /\ pc = "arranged"
  /\ Len(placed) = 3
  /\ offset[1][1] > 0
  /\ \E i \in 1 .. 3 : objects[i].width # objects[i].length

\* C2 (Containment): once pack() has returned (W, L) and arrange(ox, oy) has
\* run, every placed footprint lies within [ox, ox + W] x [oy, oy + L].
Containment ==
  pc = "arranged" =>
    \A i \in 1 .. Len(placed) :
      Within(CallRect(placed[i]),
             [x |-> offset[1][1], y |-> offset[1][2],
              width |-> result[1][1], length |-> result[1][2]])

ContainmentWitness ==
  /\ pc = "arranged"
  /\ Len(placed) = 3
  /\ offset[1][2] > 0
  /\ \E i \in 1 .. 3 : placed[i].x > offset[1][1]
  /\ \E i \in 1 .. 3 : placed[i].y > offset[1][2]

\* C3 (Tiling invariant): for every Region that holds an item, the up and
\* right children do not overlap each other, and the two children together
\* with the item's footprint exactly tile the Region: all three lie within
\* the Region, their interiors are pairwise disjoint, and their areas add up
\* to the Region's area.
Tiles(n) ==
  LET u == n.up[1]
      r == n.right[1]
      f == Footprint(n)
  IN /\ Within(u, n) /\ Within(r, n) /\ Within(f, n)
     /\ Disjoint(u, r) /\ Disjoint(u, f) /\ Disjoint(r, f)
     /\ Area(u) + Area(r) + Area(f) = Area(n)

TilingInvariant == \A n \in TreeNodes : full(n) => Tiles(n)

\* C4 (Split geometry, as claimed): every occupied Region has up at
\* (x, y + item.length) with extents (width, length - item.length) and right
\* at (x + item.length, y) with extents (width - item.length, length).
SplitGeometryClaimed ==
  \A n \in TreeNodes :
    full(n) =>
      LET o == n.object[1]
          u == n.up[1]
          r == n.right[1]
      IN /\ u.x = n.x /\ u.y = n.y + o.length
         /\ u.width = n.width /\ u.length = n.length - o.length
         /\ r.x = n.x + o.length /\ r.y = n.y
         /\ r.width = n.width - o.length /\ r.length = n.length

\* C4 (Split geometry, amended): every occupied Region has up at
\* (x, y + item.length) with extents (width, length - item.length) and right
\* at (x + item.length, y) with extents (width - item.width, length).
SplitGeometry ==
  \A n \in TreeNodes :
    full(n) =>
      LET o == n.object[1]
          u == n.up[1]
          r == n.right[1]
      IN /\ u.x = n.x /\ u.y = n.y + o.length
         /\ u.width = n.width /\ u.length = n.length - o.length
         /\ r.x = n.x + o.length /\ r.y = n.y
         /\ r.width = n.width - o.width /\ r.length = n.length

SplitGeometryWitness ==
  \E n \in TreeNodes :
    /\ full(n)
    /\ n.object[1].width # n.object[1].length
    /\ n.object[1].width < n.width
    /\ n.object[1].length < n.length

\* C5 (Exactly-once placement): no place() call is made before arrange();
\* once pack() has returned every item is held by exactly one Region; after
\* arrange(ox, oy) every item has received exactly one place(x, y) call, with
\* (x, y) = (region.x + ox, region.y + oy) of the Region holding it.
ExactlyOncePlacement ==
  /\ pc # "arranged" => placed = <<>>
  /\ pc \in {"packed", "arranged"} =>
       \A i \in 1 .. Len(objects) : Cardinality(Holders(i)) = 1
  /\ pc = "arranged" =>
       /\ \A k \in 1 .. Len(placed) : placed[k].id \in 1 .. Len(objects)
       /\ \A i \in 1 .. Len(objects) :
            /\ Cardinality({ k \in 1 .. Len(placed) : placed[k].id = i }) = 1
            /\ \A k \in 1 .. Len(placed) :
                 placed[k].id = i =>
                   \A n \in Holders(i) :
                     /\ placed[k].x = n.x + offset[1][1]
                     /\ placed[k].y = n.y + offset[1][2]

ExactlyOncePlacementWitness ==
  /\ pc = "arranged"
  /\ Len(objects) = 3
  /\ Len(placed) = 3
  /\ offset[1][1] > 0
  /\ offset[1][2] > 0

\* C6 (Growth suffices): whenever the search fails for a valid item, each
\* growth move pack() may choose yields a tree in which the retried search
\* returns a leaf, unoccupied Region that fits the item; pack() never ends in
\* GrowthFailure.
SearchOk(tree, o) ==
  LET f == insert_search(tree, o) IN
  /\ f # Null
  /\ LET n == NodeAt(tree, f[1]) IN
     /\ n.up = Null /\ n.right = Null
     /\ n.object = Null
     /\ o.width <= n.width /\ o.length <= n.length

GrowthSuffices ==
  /\ error # "GrowthFailure"
  /\ (Packing /\ root # Null) =>
       LET o == objects[idx] IN
       (o.width > 0 /\ o.length > 0 /\ insert_search(root[1], o) = Null) =>
         /\ MayGrowUp(root[1], o) \/ MayGrowRight(root[1], o)
         /\ MayGrowUp(root[1], o) =>
              SearchOk(grow_up(root[1], o.width, o.length), o)
         /\ MayGrowRight(root[1], o) =>
              SearchOk(grow_right(root[1], o.width, o.length), o)

\* The bin has been grown upwards and the triggering item sits in the new
\* Region; likewise to the right.
GrownUp ==
  /\ root # Null
  /\ ~leaf(root[1])
  /\ ~full(root[1])
  /\ root[1].up[1].y > 0
  /\ full(root[1].up[1])

\* Node n is a root produced by grow_right whose new Region holds an item.
GrownRightNode(n) ==
  /\ ~leaf(n)
  /\ ~full(n)
  /\ n.right[1].x > 0
  /\ full(n.right[1])

GrowthSufficesWitness ==
  /\ pc = "packed"
  /\ GrownUp
  /\ \E n \in Nodes(root[1].right[1]) : GrownRightNode(n)

\* C7 (InvalidItem rejection): when pack() meets an item whose width or
\* length is not positive, or is infinite or NaN, it reports InvalidItem,
\* leaves the tree as it was (no Region created, split or grown) and returns
\* no bin dimensions.
PositiveFinite(a) == IsFinite(a) /\ a > 0

InvalidItemRejection ==
  [][ (Packing /\ ~(PositiveFinite(objects[idx].width)
                    /\ PositiveFinite(objects[idx].length))) =>
        /\ root' = root
        /\ error' = "InvalidItem"
        /\ pc' = "failed"
        /\ result' = Null
        /\ placed' = <<>> ]_vars

\* C8 (Non-negative extents): every Region of every reachable tree has
\* width >= 0 and length >= 0.
NonNegativeExtents == \A n \in TreeNodes : n.width >= 0 /\ n.length >= 0

NonNegativeExtentsWitness ==
  /\ root # Null
  /\ ~leaf(root[1])
  /\ ~full(root[1])
  /\ \E n \in TreeNodes :
       /\ full(n)
       /\ n.up[1].length > 0
       /\ n.right[1].width > 0

\* C9 (Occupancy/leaf invariant): a Region with an item has both children, a
\* Region without children has no item, up is absent exactly when right is
\* absent, so leaf() agrees with "has no children" and full() implies not
\* leaf().
OccupancyLeaf ==
  \A n \in TreeNodes :
    /\ n.object # Null => (n.up # Null /\ n.right # Null)
    /\ (n.up = Null /\ n.right = Null) => n.object = Null
    /\ (n.up = Null) <=> (n.right = Null)
    /\ leaf(n) <=> (n.up = Null /\ n.right = Null)
    /\ full(n) => ~leaf(n)

OccupancyLeafWitness ==
  /\ root # Null
  /\ ~leaf(root[1])
  /\ ~full(root[1])
  /\ \E n \in TreeNodes : full(n)
  /\ \E n \in TreeNodes : leaf(n) /\ n.width > 0 /\ n.length > 0

\* C10 (Growth direction heuristic): whenever pack() grows the bin for an
\* item (w, l), the new bin is (max(W, w), L + l) or (W + w, max(L, l)),
\* whichever has the smaller |width - length|; on a tie it grows along the
\* smaller of W and L; the old root is kept unchanged as the right (grow_up)
\* or up (grow_right) child of the new root.
GrowthDirection ==
  [][ (Packing /\ root # Null) =>
        LET o == objects[idx]
            r == root[1]
            n == root'[1]
            upW == IF r.width >= o.width THEN r.width ELSE o.width
            upL == r.length + o.length
            rightW == r.width + o.width
            rightL == IF r.length >= o.length THEN r.length ELSE o.length
            skewU == IF upW >= upL THEN upW - upL ELSE upL - upW
            skewR == IF rightW >= rightL THEN rightW - rightL ELSE rightL - rightW
            wentUp == n.width = upW /\ n.length = upL /\ n.right = <<r>>
            wentRight == n.width = rightW /\ n.length = rightL /\ n.up = <<r>>
        IN (o.width > 0 /\ o.length > 0 /\ insert_search(r, o) = Null) =>
             /\ root' # Null
             /\ wentUp \/ wentRight
             /\ skewU < skewR => wentUp
             /\ skewR < skewU => wentRight
             /\ (skewU = skewR /\ r.length < r.width) => wentUp
             /\ (skewU = skewR /\ r.width < r.length) => wentRight ]_vars

GrowthDirectionWitness ==
  /\ GrownUp
  /\ LET r == root[1].right[1]
         o == root[1].up[1].object[1]
     IN /\ SkewUp(r, o) < SkewRight(r, o)
        /\ r.width > r.length
  /\ \E n \in Nodes(root[1].right[1]) : GrownRightNode(n)

====
